---- MODULE Spec2Model ----
(***************************************************************************)
(* MySQL Query Whisperer: the browser client of src/src.                   *)
(*                                                                         *)
(* A JavaScript string is a sequence of one-character strings, so that the *)
(* string operations of src/src/lib/api.ts (toLowerCase, replace, trim,    *)
(* includes, split) are computed character by character.  Texts that the   *)
(* program only builds and copies (the analysis, the suggestions) are TLA+ *)
(* strings built with \o.                                                  *)
(***************************************************************************)
EXTENDS Integers, Sequences, FiniteSets, TLC

(***************************************************************************)
(* Bounds of the model.                                                    *)
(***************************************************************************)
\* Largest reading of Date.now() the model lets the clock reach.
MaxClock == 1
\* Number of optimize submissions that may be accepted in one behaviour.
MaxSubmits == 3
\* Number of asynchronous operations (timers) that may be pending at once.
MaxPending == 2

(***************************************************************************)
(* JavaScript string primitives.                                           *)
(***************************************************************************)
UpperChars == <<"A","B","C","D","E","F","G","H","I","J","K","L","M",
                "N","O","P","Q","R","S","T","U","V","W","X","Y","Z">>
LowerChars == <<"a","b","c","d","e","f","g","h","i","j","k","l","m",
                "n","o","p","q","r","s","t","u","v","w","x","y","z">>
Digits == {"0","1","2","3","4","5","6","7","8","9"}

\* One character of String.prototype.toLowerCase.
ToLowerChar(c) ==
  IF \E i \in 1..26 : UpperChars[i] = c
  THEN LowerChars[CHOOSE i \in 1..26 : UpperChars[i] = c]
  ELSE c

\* String.prototype.toLowerCase.
ToLowerCase(s) == [i \in 1..Len(s) |-> ToLowerChar(s[i])]

\* The regular expression class \s (the members the model's alphabet has).
IsSpace(c) == c \in {" ", "\t", "\n"}

\* The regular expression class \w.
IsWordChar(c) ==
  \/ c \in Digits
  \/ c = "_"
  \/ \E i \in 1..26 : UpperChars[i] = c \/ LowerChars[i] = c

\* A replace that leaves the runs of whitespace as they are.
KeepSpaces(s) == s

\* s.replace(/\s+/g, ' '): every maximal run of whitespace becomes one space.
RECURSIVE CollapseSpaces(_)
CollapseSpaces(s) ==
  IF s = <<>> THEN <<>>
  ELSE IF IsSpace(Head(s))
       THEN IF Len(s) > 1 /\ IsSpace(s[2])
            THEN CollapseSpaces(Tail(s))
            ELSE <<" ">> \o CollapseSpaces(Tail(s))
       ELSE <<Head(s)>> \o CollapseSpaces(Tail(s))

RECURSIVE TrimStart(_)
TrimStart(s) ==
  IF s # <<>> /\ IsSpace(Head(s)) THEN TrimStart(Tail(s)) ELSE s

RECURSIVE TrimEnd(_)
TrimEnd(s) ==
  IF s # <<>> /\ IsSpace(s[Len(s)]) THEN TrimEnd(SubSeq(s, 1, Len(s) - 1)) ELSE s

\* String.prototype.trim.
Trim(s) == TrimEnd(TrimStart(s))

\* Whether sub occurs in s at (1-based) position i.
MatchesAt(s, sub, i) ==
  /\ i >= 1
  /\ i + Len(sub) - 1 <= Len(s)
  /\ SubSeq(s, i, i + Len(sub) - 1) = sub

\* The first position from i on at which sub occurs in s, 0 when there is none.
RECURSIVE IndexFrom(_, _, _)
IndexFrom(s, sub, i) ==
  IF i + Len(sub) - 1 > Len(s) THEN 0
  ELSE IF MatchesAt(s, sub, i) THEN i
  ELSE IndexFrom(s, sub, i + 1)

\* String.prototype.indexOf, 1-based; 0 when sub does not occur.
IndexOf(s, sub) == IndexFrom(s, sub, 1)

\* String.prototype.includes.
Includes(s, sub) == IndexOf(s, sub) > 0

\* s.split(sep) for a non-empty separator: the pieces between the occurrences,
\* scanned left to right ("" splits to one empty piece).
RECURSIVE SplitAt(_, _, _)
SplitAt(s, sep, i) ==
  IF i = 0 THEN <<s>>
  ELSE <<SubSeq(s, 1, i - 1)>>
         \o SplitAt(SubSeq(s, i + Len(sep), Len(s)), sep,
                    IndexOf(SubSeq(s, i + Len(sep), Len(s)), sep))

Split(s, sep) == SplitAt(s, sep, IndexOf(s, sep))

\* The characters of a sequence as one TLA+ string (template-literal output).
RECURSIVE ToStr(_)
ToStr(s) == IF s = <<>> THEN "" ELSE Head(s) \o ToStr(Tail(s))

(***************************************************************************)
(* calculateSimilarity (src/src/lib/api.ts).  A score is the rational      *)
(* num/den; the JavaScript numbers 1, 0.8 and intersection/union are the   *)
(* doubles nearest to these rationals, and comparing two such quotients of *)
(* small integers agrees with comparing the rationals.                     *)
(***************************************************************************)
Clean(str) == Trim(CollapseSpaces(ToLowerCase(str)))

\* new Set(cleanStr.split(' '))
WordSet(cleanStr) ==
  LET words == Split(cleanStr, <<" ">>)
  IN  {words[i] : i \in 1..Len(words)}

\* The Jaccard index of two word sets: lines 204-207.
Jaccard(words1, words2, intersection) ==
  [ num |-> Cardinality(intersection),
    den |-> Cardinality(words1) + Cardinality(words2) - Cardinality(intersection) ]

\* A similarity that looks for the second string in the first only.
SimilarityOneWay(cleanStr1, cleanStr2) ==
  IF cleanStr1 = cleanStr2 THEN [num |-> 1, den |-> 1]
  ELSE IF Includes(cleanStr1, cleanStr2)
       THEN [num |-> 4, den |-> 5]
       ELSE Jaccard(WordSet(cleanStr1), WordSet(cleanStr2),
                    WordSet(cleanStr1) \cap WordSet(cleanStr2))

\* Lines 193-207, on the two cleaned strings.
SimilarityOfClean(cleanStr1, cleanStr2) ==
  IF cleanStr1 = cleanStr2 THEN [num |-> 1, den |-> 1]
  ELSE IF Includes(cleanStr1, cleanStr2) \/ Includes(cleanStr2, cleanStr1)
       THEN [num |-> 4, den |-> 5]
       ELSE Jaccard(WordSet(cleanStr1), WordSet(cleanStr2),
                    WordSet(cleanStr1) \cap WordSet(cleanStr2))

calculateSimilarity(str1, str2) == SimilarityOfClean(Clean(str1), Clean(str2))

\* score > 0.7, the similarity threshold of generateMockResponse.
AboveThreshold(score) == 10 * score.num > 7 * score.den


(***************************************************************************)
(* The heuristic rewriter of generateMockResponse (src/src/lib/api.ts).    *)
(***************************************************************************)
kwWhere == <<"w","h","e","r","e">>
kwOrderBy == <<"o","r","d","e","r"," ","b","y">>
kwGroupBy == <<"g","r","o","u","p"," ","b","y">>
kwLimit == <<"l","i","m","i","t">>
kwLike == <<"l","i","k","e">>
kwIn == <<"i","n">>
kwFrom == <<"f","r","o","m">>
kwSelectStar == <<"s","e","l","e","c","t"," ","*">>
\* "SELECT id, name, created_at"
SelectColumns == <<"S","E","L","E","C","T"," ","i","d",","," ","n","a","m","e",
                   ","," ","c","r","e","a","t","e","d","_","a","t">>
\* " LIMIT 100"
LimitSuffix == <<" ","L","I","M","I","T"," ","1","0","0">>
\* "table_name"
DefaultTableName == <<"t","a","b","l","e","_","n","a","m","e">>

\* Length of the maximal run of \w characters of s that starts at position i.
RECURSIVE WordRun(_, _)
WordRun(s, i) ==
  IF i <= Len(s) /\ IsWordChar(s[i]) THEN 1 + WordRun(s, i + 1) ELSE 0

\* Length of the maximal run of \s characters of s that starts at position i.
RECURSIVE SpaceRun(_, _)
SpaceRun(s, i) ==
  IF i <= Len(s) /\ IsSpace(s[i]) THEN 1 + SpaceRun(s, i + 1) ELSE 0

\* Length of the match of (?:[=<>]|like|in) with flag i at position j, 0 if none.
OperatorLenAt(s, j) ==
  IF j <= Len(s) /\ s[j] \in {"=", "<", ">"} THEN 1
  ELSE IF MatchesAt(ToLowerCase(s), kwLike, j) THEN 4
  ELSE IF MatchesAt(ToLowerCase(s), kwIn, j) THEN 2
  ELSE 0

\* /\w+\s*(?:[=<>]|like|in)/i anchored at position i, with at most k characters
\* for \w+: \w+ is greedy and gives characters back one at a time; \s* takes
\* the whole run of spaces (after fewer, a space follows, which starts no
\* operator).  The length \w+ ends with, 0 when nothing matches at i.
RECURSIVE WordPartLen(_, _, _)
WordPartLen(s, i, k) ==
  IF k = 0 THEN 0
  ELSE IF OperatorLenAt(s, i + k + SpaceRun(s, i + k)) > 0 THEN k
  ELSE WordPartLen(s, i, k - 1)

\* The position after the operator that starts at position j.
AfterOperator(s, j) == j + OperatorLenAt(s, j)

\* whereClause.match(/\w+\s*(?:[=<>]|like|in)/gi) followed by the map that
\* strips /\s*(?:[=<>]|like|in)$/i and trims: the \w+ part of every match,
\* scanning left to right and resuming after each match.  k is the length of
\* the \w+ part of the match at i, 0 when there is no match at i.
RECURSIVE ColumnsFrom(_, _, _)
ColumnsFrom(s, i, k) ==
  IF i > Len(s) THEN <<>>
  ELSE IF k > 0
       THEN <<SubSeq(s, i, i + k - 1)>>
              \o ColumnsFrom(s, AfterOperator(s, i + k + SpaceRun(s, i + k)),
                   WordPartLen(s, AfterOperator(s, i + k + SpaceRun(s, i + k)),
                     WordRun(s, AfterOperator(s, i + k + SpaceRun(s, i + k)))))
       ELSE ColumnsFrom(s, i + 1, WordPartLen(s, i + 1, WordRun(s, i + 1)))

MatchColumns(whereClause) ==
  ColumnsFrom(whereClause, 1, WordPartLen(whereClause, 1, WordRun(whereClause, 1)))

\* The position of the leftmost match of /order by|group by|limit/i from i on,
\* Len(s) + 1 when there is none.
RECURSIVE FirstKeywordFrom(_, _)
FirstKeywordFrom(s, i) ==
  IF i > Len(s) THEN i
  ELSE IF \/ MatchesAt(ToLowerCase(s), kwOrderBy, i)
          \/ MatchesAt(ToLowerCase(s), kwGroupBy, i)
          \/ MatchesAt(ToLowerCase(s), kwLimit, i)
       THEN i
       ELSE FirstKeywordFrom(s, i + 1)

\* The first piece of s.split(/order by|group by|limit|$/i), for a non-empty
\* s: the text before the leftmost keyword.
BeforeKeyword(s) == SubSeq(s, 1, FirstKeywordFrom(s, 1) - 1)

\* The position of the leftmost match of /from\s+(\w+)/i from i on, 0 when
\* there is none.
RECURSIVE FromMatchAt(_, _)
FromMatchAt(query, i) ==
  IF i > Len(query) THEN 0
  ELSE IF /\ MatchesAt(ToLowerCase(query), kwFrom, i)
          /\ SpaceRun(query, i + 4) > 0
          /\ WordRun(query, i + 4 + SpaceRun(query, i + 4)) > 0
       THEN i
       ELSE FromMatchAt(query, i + 1)

\* The capture group (\w+) of the match of /from\s+(\w+)/i at position i.
FromCapture(query, b) == SubSeq(query, b, b + WordRun(query, b) - 1)

\* Utility function getTableName: query.match(/from\s+(\w+)/i).
TableNameAt(query, i) ==
  IF i = 0 THEN DefaultTableName
  ELSE FromCapture(query, i + 4 + SpaceRun(query, i + 4))

getTableName(query) == TableNameAt(query, FromMatchAt(query, 1))

\* columnNames.join(', ')
RECURSIVE JoinColumns(_)
JoinColumns(cols) ==
  IF cols = <<>> THEN ""
  ELSE IF Len(cols) = 1 THEN ToStr(cols[1])
  ELSE ToStr(cols[1]) \o ", " \o JoinColumns(Tail(cols))

\* sqlQuery.replace(/SELECT \*/i, "SELECT id, name, created_at") with the first
\* match at position i: the first occurrence only (the pattern has no g flag).
ReplaceAt(sqlQuery, i) ==
  IF i = 0 THEN sqlQuery
  ELSE SubSeq(sqlQuery, 1, i - 1) \o SelectColumns
         \o SubSeq(sqlQuery, i + Len(kwSelectStar), Len(sqlQuery))

ReplaceSelectStar(sqlQuery) ==
  ReplaceAt(sqlQuery, IndexOf(ToLowerCase(sqlQuery), kwSelectStar))

\* Line 128 on the text after the first "where": "".split(/...|$/i) is the
\* empty array (the pattern matches "" through $), element 0 of it is
\* undefined and .trim() raises a TypeError.
WhereClause(afterWhere) ==
  IF afterWhere = <<>> THEN [threw |-> TRUE, columns |-> <<>>]
  ELSE [threw |-> FALSE, columns |-> MatchColumns(Trim(BeforeKeyword(afterWhere)))]

\* Lines 126-143: the WHERE step.
WhereStep(sqlQuery) ==
  IF ~Includes(ToLowerCase(sqlQuery), kwWhere)
  THEN [threw |-> FALSE, columns |-> <<>>]
  ELSE WhereClause(Split(ToLowerCase(sqlQuery), kwWhere)[2])

StructureSuggestions ==
  << "Consider using ENUM instead of VARCHAR for status fields with a limited set of values.",
     "Add appropriate NOT NULL constraints to columns that should never be null." >>

ServerSuggestions ==
  << "Increase innodb_buffer_pool_size to at least 70% of available RAM for better caching.",
     "Enable query cache if using MySQL 5.7 or earlier (disabled by default in MySQL 8.0+)." >>

\* Lines 137-141: the suggestions and the analysis lines for the columns found.
\* The bullet character that opens each analysis line is written "*".
IndexSuggestions(columnNames, table) ==
  [i \in 1..Len(columnNames) |->
     "CREATE INDEX idx_" \o ToStr(columnNames[i]) \o " ON " \o ToStr(table)
       \o " (" \o ToStr(columnNames[i]) \o ");"]

ColumnsNote(columnNames) ==
  IF columnNames = <<>> THEN ""
  ELSE "* Found potential filtering on columns: " \o JoinColumns(columnNames) \o ".\n"
       \o "* Adding indexes on these columns can significantly improve query performance.\n\n"

\* Lines 145-150.
SelectStarNote(hasStar) ==
  IF hasStar
  THEN "* Using SELECT * is inefficient as it retrieves all columns, even those you don't need.\n"
       \o "* Specified only necessary columns to reduce data transfer and processing time.\n\n"
  ELSE ""

\* Lines 152-157.
LimitNote(noLimit) ==
  IF noLimit
  THEN "* Added LIMIT clause to prevent returning too many rows.\n"
       \o "* This protects against accidental large result sets.\n\n"
  ELSE ""

\* A rewriter that looks for LIMIT in capitals only.
HeuristicQueryCapitalLimit(sqlQuery) ==
  (IF Includes(ToLowerCase(sqlQuery), kwSelectStar)
   THEN ReplaceSelectStar(sqlQuery) ELSE sqlQuery)
  \o (IF ~Includes(sqlQuery, <<"L", "I", "M", "I", "T">>) THEN LimitSuffix ELSE <<>>)

\* A rewriter that appends the suffix to every query.
HeuristicQueryAlwaysLimit(sqlQuery) ==
  (IF Includes(ToLowerCase(sqlQuery), kwSelectStar)
   THEN ReplaceSelectStar(sqlQuery) ELSE sqlQuery)
  \o LimitSuffix

\* Lines 119-157: the optimized query of the heuristic path.
HeuristicQuery(sqlQuery) ==
  (IF Includes(ToLowerCase(sqlQuery), kwSelectStar)
   THEN ReplaceSelectStar(sqlQuery) ELSE sqlQuery)
  \o (IF ~Includes(ToLowerCase(sqlQuery), kwLimit) THEN LimitSuffix ELSE <<>>)

\* Lines 120-157: the analysis of the heuristic path.
HeuristicAnalysis(sqlQuery, columnNames) ==
  "Analysis of your query:\n\n"
  \o ColumnsNote(columnNames)
  \o SelectStarNote(Includes(ToLowerCase(sqlQuery), kwSelectStar))
  \o LimitNote(~Includes(ToLowerCase(sqlQuery), kwLimit))

\* Lines 167-177: the response of the heuristic path, given the WHERE step.
HeuristicResult(sqlQuery, now, where) ==
  [ threw |-> where.threw,
    originalQuery |-> sqlQuery,
    optimizedQuery |-> HeuristicQuery(sqlQuery),
    analysis |-> HeuristicAnalysis(sqlQuery, where.columns),
    performanceImprovement |-> "Up to 75% faster",
    indexSuggestions |-> IndexSuggestions(where.columns, getTableName(sqlQuery)),
    structureSuggestions |-> StructureSuggestions,
    serverSuggestions |-> ServerSuggestions,
    id |-> now,
    source |-> "openai" ]

\* Lines 119-177 of generateMockResponse: the heuristic path.
HeuristicResponse(sqlQuery, now) == HeuristicResult(sqlQuery, now, WhereStep(sqlQuery))

(***************************************************************************)
(* The history path of generateMockResponse and the stored records.        *)
(***************************************************************************)
\* A record that is stored with feedback "helpful" from the start.
HistoryItemHelpful(id, timestamp, query, optimizedQuery, analysis, serial) ==
  [ id |-> id, timestamp |-> timestamp, query |-> query,
    optimizedQuery |-> optimizedQuery, analysis |-> analysis,
    feedback |-> "helpful", serial |-> serial ]

\* A record of the "queryHistory" list (OptimizationHistoryItem).  feedback
\* is "absent" while the item has no feedback key.  serial is bookkeeping of
\* the model, not a field of the program: the number of the submission that
\* appended the record.
HistoryItem(id, timestamp, query, optimizedQuery, analysis, serial) ==
  [ id |-> id, timestamp |-> timestamp, query |-> query,
    optimizedQuery |-> optimizedQuery, analysis |-> analysis,
    feedback |-> "absent", serial |-> serial ]

\* A find predicate that does not look at the feedback.
IsReusableAnyFeedback(item, sqlQuery) ==
  AboveThreshold(calculateSimilarity(item.query, sqlQuery))

\* The predicate of history.find in generateMockResponse.
IsReusable(item, sqlQuery) ==
  /\ item.feedback = "helpful"
  /\ AboveThreshold(calculateSimilarity(item.query, sqlQuery))

\* A find that returns the last index from i on whose item satisfies the
\* predicate.
FindLastSimilar(history_, sqlQuery, i) ==
  IF \E j \in i..Len(history_) : IsReusable(history_[j], sqlQuery)
  THEN CHOOSE j \in i..Len(history_) :
         /\ IsReusable(history_[j], sqlQuery)
         /\ \A k \in (j + 1)..Len(history_) : ~IsReusable(history_[k], sqlQuery)
  ELSE 0

\* Array.prototype.find, as an index: the first index from i on whose item
\* satisfies the predicate, 0 when there is none.
RECURSIVE FindSimilar(_, _, _)
FindSimilar(history_, sqlQuery, i) ==
  IF i > Len(history_) THEN 0
  ELSE IF IsReusable(history_[i], sqlQuery) THEN i
  ELSE FindSimilar(history_, sqlQuery, i + 1)

\* extractSuggestions: fixed lists, whatever the analysis.
extractSuggestions(analysis, type) ==
  IF type = "index"
  THEN << "CREATE INDEX idx_status ON users (status);",
          "CREATE INDEX idx_created_at ON users (created_at);" >>
  ELSE IF type = "structure"
  THEN << "Consider using ENUM instead of VARCHAR for status fields with a limited set of values.",
          "Add appropriate NOT NULL constraints to columns that should never be null." >>
  ELSE << "Increase innodb_buffer_pool_size to at least 70% of available RAM.",
          "Enable query cache if using MySQL 5.7 or earlier." >>

\* Lines 102-117 of generateMockResponse: the response built from the record
\* that find returned.
HistoryResponse(sqlQuery, similarQuery, now) ==
  [ threw |-> FALSE,
    originalQuery |-> sqlQuery,
    optimizedQuery |-> similarQuery.optimizedQuery,
    analysis |-> similarQuery.analysis,
    performanceImprovement |-> "Estimated 70% faster based on similar queries",
    indexSuggestions |-> extractSuggestions(similarQuery.analysis, "index"),
    structureSuggestions |-> extractSuggestions(similarQuery.analysis, "structure"),
    serverSuggestions |-> extractSuggestions(similarQuery.analysis, "server"),
    id |-> now,
    source |-> "history" ]

\* generateMockResponse on a parsed history list, find having returned the
\* item at index i (0: undefined).
ResponseFor(sqlQuery, history_, now, i) ==
  IF i > 0 THEN HistoryResponse(sqlQuery, history_[i], now)
  ELSE HeuristicResponse(sqlQuery, now)

generateMockResponse(sqlQuery, history_, now) ==
  ResponseFor(sqlQuery, history_, now, FindSimilar(history_, sqlQuery, 1))

(***************************************************************************)
(* localStorage.                                                           *)
(***************************************************************************)
\* "ok"; "full": setItem raises QuotaExceededError; "blocked": every access
\* to localStorage raises SecurityError.
StorageModes == {"ok", "full", "blocked"}

AbsentStore == [state |-> "absent", items |-> <<>>]
\* The key holds text that JSON.parse rejects.
CorruptStore == [state |-> "corrupt", items |-> <<>>]
ListStore(items) == [state |-> "list", items |-> items]

\* A read that finds the list as it was when the page was loaded: empty.
ReadHistoryStale(storage_, store_) == [threw |-> FALSE, history |-> <<>>]

\* JSON.parse(localStorage.getItem("queryHistory") || "[]")
ReadHistory(storage_, store_) ==
  IF storage_ = "blocked" \/ store_.state = "corrupt"
  THEN [threw |-> TRUE, history |-> <<>>]
  ELSE [threw |-> FALSE, history |-> store_.items]

\* Whether localStorage.setItem raises.
SetItemThrows(storage_) == storage_ \in {"full", "blocked"}

\* A map that sets the feedback of every item, whatever its id.
MapFeedbackAll(history_, id, value) ==
  [i \in 1..Len(history_) |-> [history_[i] EXCEPT !.feedback = value]]

\* history.map(item => item.id === id ? { ...item, feedback } : item)
MapFeedback(history_, id, value) ==
  [i \in 1..Len(history_) |->
     IF history_[i].id = id THEN [history_[i] EXCEPT !.feedback = value]
     ELSE history_[i]]

\* history.filter(item => item.id !== id)
RECURSIVE FilterOut(_, _)
FilterOut(history_, id) ==
  IF history_ = <<>> THEN <<>>
  ELSE IF Head(history_).id # id
       THEN <<Head(history_)>> \o FilterOut(Tail(history_), id)
       ELSE FilterOut(Tail(history_), id)

(***************************************************************************)
(* The queries a user submits in the model.                                *)
(***************************************************************************)
\* "SELECT * FROM t"
QueryStar == <<"S","E","L","E","C","T"," ","*"," ","F","R","O","M"," ","t">>
\* "SELECT c FROM t LIMIT 1"
QueryLimit == <<"S","E","L","E","C","T"," ","c"," ","F","R","O","M"," ","t",
                " ","L","I","M","I","T"," ","1">>
\* "x WHERE": nothing follows the keyword
QueryWhereEnd == <<"x"," ","W","H","E","R","E">>
\* " ": passes the min(1) validation
QueryBlank == <<" ">>
\* "": fails the min(1) validation
QueryEmpty == <<>>

Queries == {QueryStar, QueryLimit, QueryWhereEnd, QueryEmpty}

(***************************************************************************)
(* The state of the page.                                                  *)
(***************************************************************************)
VARIABLES
  clock,         \* the reading Date.now() gives at this moment
  storage,       \* how localStorage behaves (StorageModes)
  store,         \* the value of localStorage key "queryHistory"
  activeTab,     \* Index: "optimizer" or "history"
  crashed,       \* an error escaped an effect and React unmounted the page
  isOptimizing,  \* QueryOptimizer state
  result,        \* QueryOptimizer state: <<>> (null) or <<response>>
  shown,         \* the serial of the submission whose response result holds, 0 for none
  feedback,      \* FeedbackButtons state: "absent" (null), "helpful", "not_helpful"
  isSubmitting,  \* FeedbackButtons state
  history,       \* OptimizationHistory state
  selectedItem,  \* OptimizationHistory state: <<>> (null) or <<item>>
  pending,       \* the asynchronous calls whose timer has not fired, oldest first
  submits,       \* number of optimize submissions accepted so far
  last,          \* what the last operation on the store did and which toast it raised
  input1,        \* SpecPure: the first argument
  input2,        \* SpecPure: the second argument
  output         \* SpecPure: what the functions returned for the arguments

pure == <<input1, input2, output>>

vars == <<clock, storage, store, activeTab, crashed, isOptimizing, result, shown, feedback,
          isSubmitting, history, selectedItem, pending, submits, last, pure>>

\* op: "none", "optimize", "feedback", "delete" or "clear"; toast: the title of
\* the toast the operation raised, "" when it raised none; source: the source
\* of the response optimizeQuery returned, "" when it returned none; similar:
\* the serial of the record generateMockResponse reused, 0 when it reused none.
NoOperation == [op |-> "none", toast |-> "", source |-> "", similar |-> 0]

PendingOptimize(sqlQuery, serial) ==
  [ kind |-> "optimize", sqlQuery |-> sqlQuery, id |-> 0, value |-> "absent",
    serial |-> serial, live |-> TRUE ]

\* serial is bookkeeping: the submission whose response the buttons belong to.
PendingFeedback(id, value, serial) ==
  [ kind |-> "feedback", sqlQuery |-> <<>>, id |-> id, value |-> value,
    serial |-> serial, live |-> TRUE ]

\* The state after the page has loaded with a working, empty localStorage.
Init ==
  /\ clock = 0
  /\ storage = "ok"
  /\ store = AbsentStore
  /\ activeTab = "optimizer"
  /\ crashed = FALSE
  /\ isOptimizing = FALSE
  /\ result = <<>>
  /\ shown = 0
  /\ feedback = "absent"
  /\ isSubmitting = FALSE
  /\ history = <<>>
  /\ selectedItem = <<>>
  /\ pending = <<>>
  /\ submits = 0
  /\ last = NoOperation
  /\ input1 = <<>>
  /\ input2 = <<>>
  /\ output = <<>>

\* The page loads with localStorage in any mode, the key absent or corrupt.
InitFaulty ==
  /\ clock = 0
  /\ storage \in StorageModes
  /\ store \in {AbsentStore, CorruptStore}
  /\ activeTab = "optimizer"
  /\ crashed = FALSE
  /\ isOptimizing = FALSE
  /\ result = <<>>
  /\ shown = 0
  /\ feedback = "absent"
  /\ isSubmitting = FALSE
  /\ history = <<>>
  /\ selectedItem = <<>>
  /\ pending = <<>>
  /\ submits = 0
  /\ last = NoOperation
  /\ input1 = <<>>
  /\ input2 = <<>>
  /\ output = <<>>

\* Time passes: Date.now() never decreases.
Tick ==
  /\ clock < MaxClock
  /\ clock' = clock + 1
  /\ UNCHANGED <<storage, store, activeTab, crashed, isOptimizing, result, shown, feedback,
                 isSubmitting, history, selectedItem, pending, submits, last, pure>>

\* A schema without the minimum length.
ValidAnyLength(sqlQuery) == Len(sqlQuery) >= 0

\* The formSchema check of sqlQuery: z.string().min(1).
Valid(sqlQuery) == Len(sqlQuery) >= 1

\* form.handleSubmit(onSubmit) up to the await in optimizeQuery: the submit
\* button is disabled while isOptimizing; an invalid form never reaches
\* onSubmit, the form shows the message of the schema instead.
Submit(sqlQuery) ==
  /\ activeTab = "optimizer" /\ ~crashed
  /\ ~isOptimizing
  /\ submits < MaxSubmits
  /\ Len(pending) < MaxPending
  /\ IF Valid(sqlQuery)
     THEN /\ isOptimizing' = TRUE
          /\ pending' = Append(pending, PendingOptimize(sqlQuery, submits + 1))
          /\ submits' = submits + 1
          /\ last' = last
     ELSE /\ last' = [op |-> "rejected", toast |-> "Query is required",
                      source |-> "", similar |-> 0]
          /\ UNCHANGED <<isOptimizing, pending, submits>>
  /\ UNCHANGED <<clock, storage, store, activeTab, crashed, result, shown, feedback,
                 isSubmitting, history, selectedItem, pure>>

\* The value a state setter of a component leaves: a setter called after the
\* component was unmounted changes nothing.
SetState(live, old, new) == IF live THEN new ELSE old

\* What the operation records in last.
Outcome(op, toast, source, similar) ==
  [op |-> op, toast |-> toast, source |-> source, similar |-> similar]

\* A list with the item put after the items it has.
PutLast(historyItem, history_) == history_ \o <<historyItem>>

\* [historyItem, ...history]
Prepend(historyItem, history_) == <<historyItem>> \o history_

\* Lines 49-60 of onSubmit, optimizeQuery having returned response: setResult,
\* then the item is built from two more readings of the clock (id t2,
\* timestamp t3) and prepended to the list read again from the store.
StoreResponse(p, read, response, similar, t2, t3) ==
  /\ clock' = t3
  /\ result' = SetState(p.live, result, <<response>>)
  /\ shown' = SetState(p.live, shown, p.serial)
  /\ IF SetItemThrows(storage)
     THEN /\ store' = store
          /\ last' = Outcome("optimize", "Optimization Failed", response.source, similar)
     ELSE /\ store' = ListStore(Prepend(HistoryItem(t2, t3, p.sqlQuery,
                                                    response.optimizedQuery,
                                                    response.analysis, p.serial),
                                        read.history))
          /\ last' = Outcome("optimize", "", response.source, similar)

\* onSubmit from line 48 on, find having returned the item at index i.
OnResponse(p, read, response, similar) ==
  IF read.threw \/ response.threw
  THEN /\ last' = Outcome("optimize", "Optimization Failed", "", 0)
       /\ UNCHANGED <<clock, store, result, shown>>
  ELSE \E t2 \in clock..(clock + 1) : \E t3 \in t2..(t2 + 1) :
         /\ t3 <= MaxClock
         /\ StoreResponse(p, read, response, similar, t2, t3)

Reused(read, i) == IF i > 0 THEN read.history[i].serial ELSE 0

OnTimer(p, read, i) ==
  OnResponse(p, read, ResponseFor(p.sqlQuery, read.history, clock, i), Reused(read, i))

\* The rest of onSubmit, run when the 1500 ms timer of optimizeQuery fires:
\* generateMockResponse, setResult, the append to the history, the toast on
\* failure, and setIsOptimizing(false).  The three readings of the clock
\* (response id, item id, item timestamp) may differ.
OptimizeComplete ==
  /\ pending # <<>>
  /\ pending[1].kind = "optimize"
  /\ pending' = Tail(pending)
  /\ isOptimizing' = SetState(pending[1].live, isOptimizing, FALSE)
  /\ OnTimer(pending[1], ReadHistory(storage, store),
             FindSimilar(ReadHistory(storage, store).history, pending[1].sqlQuery, 1))
  /\ UNCHANGED <<storage, activeTab, crashed, feedback, isSubmitting, history,
                 selectedItem, submits, pure>>

\* A handler (and buttons) that take a click while a submission is in flight.
HandleFeedbackUnguarded(value) ==
  /\ activeTab = "optimizer" /\ ~crashed
  /\ result # <<>>
  /\ Len(pending) < MaxPending
  /\ isSubmitting' = TRUE
  /\ pending' = Append(pending, PendingFeedback(result[1].id, value, shown))
  /\ UNCHANGED <<clock, storage, store, activeTab, crashed, isOptimizing, result, shown,
                 feedback, history, selectedItem, submits, last, pure>>

\* handleFeedback up to the await in submitFeedback.  optimizationId is the id
\* of the displayed result.
HandleFeedback(value) ==
  /\ activeTab = "optimizer" /\ ~crashed
  /\ result # <<>>
  /\ ~isSubmitting
  /\ Len(pending) < MaxPending
  /\ isSubmitting' = TRUE
  /\ pending' = Append(pending, PendingFeedback(result[1].id, value, shown))
  /\ UNCHANGED <<clock, storage, store, activeTab, crashed, isOptimizing, result, shown,
                 feedback, history, selectedItem, submits, last, pure>>

\* Index of the oldest pending feedback call, 0 when there is none.
RECURSIVE FirstFeedback(_, _)
FirstFeedback(queue, i) ==
  IF i > Len(queue) THEN 0
  ELSE IF queue[i].kind = "feedback" THEN i
  ELSE FirstFeedback(queue, i + 1)

RemoveAt(queue, i) == SubSeq(queue, 1, i - 1) \o SubSeq(queue, i + 1, Len(queue))

\* submitFeedback (src/src/lib/api.ts) on the list it parsed: the list it
\* writes back.
submitFeedback(history_, id, value) == MapFeedback(history_, id, value)

\* handleFeedback after the await, for the pending call p.
OnFeedbackTimer(p, read) ==
  /\ isSubmitting' = SetState(p.live, isSubmitting, FALSE)
  /\ IF ~read.threw /\ ~SetItemThrows(storage)
     THEN /\ store' = ListStore(submitFeedback(read.history, p.id, p.value))
          /\ feedback' = SetState(p.live, feedback, p.value)
          /\ last' = Outcome("feedback", "Thank you for your feedback!", "", 0)
     ELSE /\ UNCHANGED <<store, feedback>>
          /\ last' = Outcome("feedback", "Feedback submission failed", "", 0)

\* The rest of handleFeedback, run when the 500 ms timer of submitFeedback
\* fires.  A feedback call started after an optimize call may finish before it.
FeedbackComplete ==
  /\ FirstFeedback(pending, 1) > 0
  /\ pending' = RemoveAt(pending, FirstFeedback(pending, 1))
  /\ OnFeedbackTimer(pending[FirstFeedback(pending, 1)], ReadHistory(storage, store))
  /\ UNCHANGED <<clock, storage, activeTab, crashed, isOptimizing, result, shown, history,
                 selectedItem, submits, pure>>

\* The user opens the history tab: QueryOptimizer (with its result and its
\* FeedbackButtons) unmounts, OptimizationHistory mounts and its effect reads
\* the store.  An error in the effect unmounts the page.
ShowHistory ==
  /\ activeTab = "optimizer" /\ ~crashed
  /\ activeTab' = "history"
  /\ isOptimizing' = FALSE
  /\ result' = <<>>
  /\ shown' = 0
  /\ feedback' = "absent"
  /\ isSubmitting' = FALSE
  /\ pending' = [i \in 1..Len(pending) |-> [pending[i] EXCEPT !.live = FALSE]]
  /\ selectedItem' = <<>>
  /\ crashed' = ReadHistory(storage, store).threw
  /\ history' = ReadHistory(storage, store).history
  /\ UNCHANGED <<clock, storage, store, submits, last, pure>>

\* The user goes back to the optimizer tab (the tab trigger, or either button
\* of the history view): OptimizationHistory unmounts, a new QueryOptimizer mounts.
ShowOptimizer ==
  /\ activeTab = "history" /\ ~crashed
  /\ activeTab' = "optimizer"
  /\ history' = <<>>
  /\ selectedItem' = <<>>
  /\ UNCHANGED <<clock, storage, store, crashed, isOptimizing, result, shown, feedback,
                 isSubmitting, pending, submits, last, pure>>

\* onClick of a row of the history list: setSelectedItem(item).
SelectItem(i) ==
  /\ activeTab = "history" /\ ~crashed
  /\ i \in 1..Len(history)
  /\ selectedItem' = <<history[i]>>
  /\ UNCHANGED <<clock, storage, store, activeTab, crashed, isOptimizing, result, shown,
                 feedback, isSubmitting, history, pending, submits, last, pure>>

\* deleteHistoryItem(history[i].id): the list written is the component's
\* state, filtered.  When setItem raises, the handler stops there.
DeleteHistoryItem(i) ==
  /\ activeTab = "history" /\ ~crashed
  /\ i \in 1..Len(history)
  /\ IF SetItemThrows(storage)
     THEN /\ last' = Outcome("delete", "", "", 0)
          /\ UNCHANGED <<store, history>>
     ELSE /\ store' = ListStore(FilterOut(history, history[i].id))
          /\ history' = FilterOut(history, history[i].id)
          /\ last' = Outcome("delete", "Item Deleted", "", 0)
  /\ UNCHANGED <<clock, storage, activeTab, crashed, isOptimizing, result, shown, feedback,
                 isSubmitting, selectedItem, pending, submits, pure>>

\* clearHistory: removeItem, setHistory([]), toast.
ClearHistory ==
  /\ activeTab = "history" /\ ~crashed
  /\ IF storage = "blocked"
     THEN /\ last' = Outcome("clear", "", "", 0)
          /\ UNCHANGED <<store, history>>
     ELSE /\ store' = AbsentStore
          /\ history' = <<>>
          /\ last' = Outcome("clear", "History Cleared", "", 0)
  /\ UNCHANGED <<clock, storage, activeTab, crashed, isOptimizing, result, shown, feedback,
                 isSubmitting, selectedItem, pending, submits, pure>>

Next ==
  \/ Tick
  \/ \E q \in Queries : Submit(q)
  \/ OptimizeComplete
  \/ \E v \in {"helpful", "not_helpful"} : HandleFeedback(v)
  \/ FeedbackComplete
  \/ ShowHistory
  \/ ShowOptimizer
  \/ \E i \in 1..MaxSubmits : SelectItem(i)
  \/ \E i \in 1..MaxSubmits : DeleteHistoryItem(i)
  \/ ClearHistory

\* The page with a working localStorage.
Spec == Init /\ [][Next]_vars

\* The page with localStorage in any mode.
SpecFaulty == InitFaulty /\ [][Next]_vars

\* The queries of the fair specification: one the rewriter answers, one on
\* which it fails.
LiveQueries == {QueryStar, QueryWhereEnd}

NextLive ==
  \/ Tick
  \/ \E q \in LiveQueries : Submit(q)
  \/ OptimizeComplete
  \/ \E v \in {"helpful", "not_helpful"} : HandleFeedback(v)
  \/ FeedbackComplete
  \/ ShowHistory
  \/ ShowOptimizer
  \/ \E i \in 1..MaxSubmits : SelectItem(i)
  \/ \E i \in 1..MaxSubmits : DeleteHistoryItem(i)
  \/ ClearHistory

(***************************************************************************)
(* The pure functions on their own: the arguments are drawn from the       *)
(* queries built of at most MaxFragments fragments.                        *)
(***************************************************************************)
\* Number of fragments a query of SpecPure is built of, at most.
MaxFragments == 2

Fragments ==
  { <<"S","E","L","E","C","T"," ","*">>,        \* "SELECT *"
    <<"s","e","l","e","c","t"," ","*">>,        \* "select *"
    <<" ","F","R","O","M"," ","t">>,   \* " FROM t"
    <<" ","W","H","E","R","E"," ","A","b"," ","="," ","1">>,   \* " WHERE Ab = 1"
    <<" ","l","i","m","i","t"," ","5">>,   \* " limit 5"
    <<" "," ","f","r","o","m"," "," ","T">>,   \* "  from  T"
    <<" ">> }

RECURSIVE QueriesOf(_)
QueriesOf(n) ==
  IF n = 0 THEN {<<>>}
  ELSE QueriesOf(n - 1) \cup {q \o f : q \in QueriesOf(n - 1), f \in Fragments}

PureQueries == QueriesOf(MaxFragments)

InitPure ==
  /\ clock = 0
  /\ storage = "ok"
  /\ store = AbsentStore
  /\ activeTab = "optimizer"
  /\ crashed = FALSE
  /\ isOptimizing = FALSE
  /\ result = <<>>
  /\ shown = 0
  /\ feedback = "absent"
  /\ isSubmitting = FALSE
  /\ history = <<>>
  /\ selectedItem = <<>>
  /\ pending = <<>>
  /\ submits = 0
  /\ last = NoOperation
  /\ input1 \in PureQueries
  /\ input2 \in PureQueries
  /\ output = <<>>

\* A stored record of the query on which the user gave the feedback "helpful".
HelpfulRecord(query, now) ==
  [HistoryItem(now, now, query, HeuristicQuery(query), "", 1)
     EXCEPT !.feedback = "helpful"]

\* The heuristic path of generateMockResponse on input1, calculateSimilarity
\* on input1 and input2 in both orders of the arguments, and the source of
\* generateMockResponse for input1 when the history is one helpful record of
\* input2.
Compute ==
  /\ output = <<>>
  /\ output' = << [ response |-> HeuristicResponse(input1, clock),
                    score |-> calculateSimilarity(input1, input2),
                    reverse |-> calculateSimilarity(input2, input1),
                    answer |-> generateMockResponse(
                                 input1, <<HelpfulRecord(input2, clock)>>, clock).source ] >>
  /\ UNCHANGED <<clock, storage, store, activeTab, crashed, isOptimizing, result, shown,
                 feedback, isSubmitting, history, selectedItem, pending, submits, last,
                 input1, input2>>

NextPure == Compute

SpecPure == InitPure /\ [][NextPure]_vars

(***************************************************************************)
(* Steps of the behaviours, for the properties below.                      *)
(***************************************************************************)
\* The step is an OptimizeComplete step: the oldest pending call, an optimize
\* call, leaves the queue.
OptimizeStep ==
  /\ pending # <<>>
  /\ pending[1].kind = "optimize"
  /\ pending' = Tail(pending)

\* The step is a FeedbackComplete step: the oldest pending feedback call
\* leaves the queue.
FeedbackStep ==
  /\ FirstFeedback(pending, 1) > 0
  /\ pending' = RemoveAt(pending, FirstFeedback(pending, 1))

\* The feedback call that a FeedbackComplete step completes.
FeedbackCall == pending[FirstFeedback(pending, 1)]

\* The step is a FeedbackComplete step in which submitFeedback returned.
FeedbackDone == FeedbackStep /\ last'.toast = "Thank you for your feedback!"

\* The page with localStorage in any mode, every timer that was set firing in
\* the end: the setTimeout callbacks of optimizeQuery and of submitFeedback run.
\* The steps of NextLive that take the oldest optimize call off the queue are
\* the OptimizeComplete steps, and one is possible whenever that call is the
\* oldest pending one.
SpecLive ==
  /\ InitFaulty
  /\ [][NextLive]_vars
  /\ WF_pending(OptimizeStep)
  /\ WF_vars(FeedbackComplete)

\* The record can be reused for the query: helpful, and similar above 0.7.
Matches(item, sqlQuery) ==
  /\ item.feedback = "helpful"
  /\ LET score == calculateSimilarity(item.query, sqlQuery)
     IN  score.num * 10 > score.den * 7

(***************************************************************************)
(* Properties of the similarity matcher.                                   *)
(***************************************************************************)
\* C1: whenever an optimization has been answered from the history (source
\* "history"), the record it reused is in the store with feedback "helpful",
\* and the record appended for the optimization carries the reused record's
\* optimized query and analysis: a record with any other feedback is never
\* reused.
C1_ReusedIsHelpful ==
  (last.op = "optimize" /\ last.source = "history") =>
    \E i \in 1..Len(store.items) :
      /\ store.items[i].serial = last.similar
      /\ store.items[i].feedback = "helpful"
      /\ store.items[1].optimizedQuery = store.items[i].optimizedQuery
      /\ store.items[1].analysis = store.items[i].analysis

\* C1 witness: an optimization was answered from the third record of the
\* store although the second one, not helpful, holds the very same query.
C1_SkippedUnhelpful ==
  /\ last.op = "optimize" /\ last.source = "history"
  /\ Len(store.items) >= 3
  /\ store.items[2].query = store.items[1].query
  /\ store.items[2].feedback # "helpful"
  /\ store.items[3].serial = last.similar
  /\ store.items[3].feedback = "helpful"

\* C2: an optimization returns source "history" when the store holds a
\* helpful record whose query is similar above 0.7, and otherwise returns the
\* heuristic rewriter's response with source "openai".
C2_HistoryIffReusable ==
  [][OptimizeStep =>
       IF \E i \in 1..Len(store.items) : Matches(store.items[i], pending[1].sqlQuery)
       THEN last'.source = "history" /\ last'.toast = ""
       ELSE last'.source = "openai" /\ last'.toast = ""]_vars

\* C3: the record reused is the first helpful similar record in list order,
\* which is the most recently appended of them; its optimized query and its
\* analysis are copied unchanged into the result and into the new record.
C3_FirstMatchReused ==
  [][(OptimizeStep /\ last'.source = "history") =>
       \E i \in 1..Len(store.items) :
         /\ Matches(store.items[i], pending[1].sqlQuery)
         /\ \A j \in 1..(i - 1) : ~Matches(store.items[j], pending[1].sqlQuery)
         /\ \A j \in 1..Len(store.items) :
              Matches(store.items[j], pending[1].sqlQuery) =>
                store.items[j].serial <= store.items[i].serial
         /\ last'.similar = store.items[i].serial
         /\ store'.items[1].query = pending[1].sqlQuery
         /\ store'.items[1].optimizedQuery = store.items[i].optimizedQuery
         /\ store'.items[1].analysis = store.items[i].analysis
         /\ pending[1].live =>
              /\ result'[1].originalQuery = pending[1].sqlQuery
              /\ result'[1].optimizedQuery = store.items[i].optimizedQuery
              /\ result'[1].analysis = store.items[i].analysis]_vars

\* C3 witness: an optimization was answered from the second record of the
\* store, the newer of two helpful records holding the query.
C3_TwoCandidates ==
  /\ last.op = "optimize" /\ last.source = "history"
  /\ Len(store.items) >= 3
  /\ store.items[2].feedback = "helpful"
  /\ store.items[3].feedback = "helpful"
  /\ store.items[2].query = store.items[1].query
  /\ store.items[3].query = store.items[1].query
  /\ last.similar = store.items[2].serial
  /\ store.items[3].serial < store.items[2].serial

(***************************************************************************)
(* Properties of the feedback.                                             *)
(***************************************************************************)
\* C4: a feedback click on a displayed result sets the feedback of the record
\* appended for the same optimization, whatever the clock read when the
\* response id and the record id were taken.
C4_FeedbackReachesRecord ==
  [][FeedbackDone =>
       \A i \in 1..Len(store'.items) :
         store'.items[i].serial = FeedbackCall.serial =>
           store'.items[i].feedback = FeedbackCall.value]_vars

\* C5: submitFeedback changes the feedback of the records whose id it was
\* given and nothing else: the number and the order of the records and every
\* other field of every record stay as they were.
C5_FeedbackFrame ==
  [][FeedbackDone =>
       /\ Len(store'.items) = Len(store.items)
       /\ \A i \in 1..Len(store.items) :
            /\ store'.items[i].id = store.items[i].id
            /\ store'.items[i].timestamp = store.items[i].timestamp
            /\ store'.items[i].query = store.items[i].query
            /\ store'.items[i].optimizedQuery = store.items[i].optimizedQuery
            /\ store'.items[i].analysis = store.items[i].analysis
            /\ store'.items[i].serial = store.items[i].serial
            /\ store'.items[i].feedback =
                 IF store.items[i].id = FeedbackCall.id
                 THEN FeedbackCall.value
                 ELSE store.items[i].feedback]_vars

\* C5 witness: a feedback call has returned and the store holds a record it
\* marked next to a record with another id that has no feedback.
C5_OneOfTwoMarked ==
  /\ last.op = "feedback" /\ last.toast = "Thank you for your feedback!"
  /\ \E i, j \in 1..Len(store.items) :
       /\ store.items[i].id # store.items[j].id
       /\ store.items[i].feedback # "absent"
       /\ store.items[j].feedback = "absent"

(***************************************************************************)
(* Properties of a submit and of the store.                                *)
(***************************************************************************)
\* C6: every submitted optimization ends in exactly one of two ways: the
\* result is displayed, one record is appended and no error is shown; or the
\* error toast is shown, no result is displayed and the store is unchanged.
C6_ExactlyOneOutcome ==
  [][OptimizeStep =>
       \/ /\ last'.toast = ""
          /\ result' # <<>> /\ shown' = pending[1].serial
          /\ Len(store'.items) = Len(store.items) + 1
       \/ /\ last'.toast = "Optimization Failed"
          /\ shown' # pending[1].serial
          /\ store' = store]_vars

\* C7: when localStorage is unavailable or the stored value is corrupt, an
\* optimization still displays its result without an error and a feedback
\* click still succeeds.  Queries on which the rewriter itself throws are left
\* aside.
C7_PersistenceNonFatal ==
  [][(storage # "ok" \/ store.state = "corrupt") =>
       /\ (OptimizeStep /\ ~HeuristicResponse(pending[1].sqlQuery, clock).threw) =>
            /\ last'.toast = ""
            /\ pending[1].live => shown' = pending[1].serial
       /\ FeedbackStep =>
            /\ last'.toast = "Thank you for your feedback!"
            /\ FeedbackCall.live => feedback' = FeedbackCall.value]_vars

\* C8: no two records of the store have the same id.
C8_UniqueIds ==
  \A i, j \in 1..Len(store.items) :
    i # j => store.items[i].id # store.items[j].id

\* C9: the feedback of a record, once set, is not absent again for as long as
\* the record is in the store.
C9_FeedbackNeverCleared ==
  [][\A i \in 1..Len(store.items) : \A j \in 1..Len(store'.items) :
       (store'.items[j].serial = store.items[i].serial
          /\ store.items[i].feedback # "absent")
       => store'.items[j].feedback # "absent"]_vars

(***************************************************************************)
(* Properties of the heuristic rewriter.                                   *)
(***************************************************************************)
\* C10: for a query that contains SELECT * (in any case), the optimized query
\* of the heuristic rewriter contains SELECT id, name, created_at and no
\* SELECT * any more, also when SELECT * occurs more than once.  Only an
\* occurrence in capitals left in the output counts here.
C10_NoSelectStarLeft ==
  (output # <<>> /\ ~output[1].response.threw
     /\ Includes(ToLowerCase(input1), kwSelectStar)) =>
    /\ Includes(output[1].response.optimizedQuery, SelectColumns)
    /\ ~Includes(output[1].response.optimizedQuery,
                 <<"S", "E", "L", "E", "C", "T", " ", "*">>)

\* The query ends with the text.
EndsWith(query, text) ==
  /\ Len(query) >= Len(text)
  /\ SubSeq(query, Len(query) - Len(text) + 1, Len(query)) = text

\* C11: on the heuristic path " LIMIT 100" is appended to the query (after the
\* rewrite of SELECT *, if any) exactly when the submitted query does not
\* contain "limit" in any letter case: a query without it yields an optimized
\* query that ends with " LIMIT 100", a query with it has nothing appended.
C11_LimitAppendedIffMissing ==
  (output # <<>> /\ ~output[1].response.threw) =>
    IF \E i \in 1..Len(input1) : MatchesAt(ToLowerCase(input1), kwLimit, i)
    THEN output[1].response.optimizedQuery = ReplaceSelectStar(input1)
    ELSE /\ EndsWith(output[1].response.optimizedQuery, LimitSuffix)
         /\ output[1].response.optimizedQuery = ReplaceSelectStar(input1) \o LimitSuffix

\* C11 witness: a rewritten query with SELECT * and "limit" in small letters,
\* to which nothing was appended.
C11_SmallLimitKept ==
  /\ output # <<>> /\ ~output[1].response.threw
  /\ Includes(input1, <<"l", "i", "m", "i", "t">>)
  /\ Includes(ToLowerCase(input1), kwSelectStar)
  /\ ~EndsWith(output[1].response.optimizedQuery, LimitSuffix)

\* C12: on the heuristic path a query without SELECT * that contains LIMIT (in
\* any case) is returned unchanged as the optimized query; a query without
\* WHERE (in any case) gets no index suggestion.
C12_UnchangedWhenNoStepFires ==
  (output # <<>> /\ ~output[1].response.threw) =>
    /\ ((\A i \in 1..Len(input1) : ~MatchesAt(ToLowerCase(input1), kwSelectStar, i))
          /\ (\E i \in 1..Len(input1) : MatchesAt(ToLowerCase(input1), kwLimit, i)))
       => output[1].response.optimizedQuery = input1
    /\ (\A i \in 1..Len(input1) : ~MatchesAt(ToLowerCase(input1), kwWhere, i))
       => output[1].response.indexSuggestions = <<>>

\* C12 witness: a non-empty query with LIMIT, without SELECT * and without
\* WHERE went through the rewriter.
C12_NoStepFired ==
  /\ output # <<>> /\ ~output[1].response.threw
  /\ input1 # <<>>
  /\ Includes(ToLowerCase(input1), kwLimit)
  /\ ~Includes(ToLowerCase(input1), kwSelectStar)
  /\ ~Includes(ToLowerCase(input1), kwWhere)
  /\ output[1].response.optimizedQuery = input1
  /\ output[1].response.indexSuggestions = <<>>

\* The text of the query after its first WHERE (in any case), as written.
AfterFirstWhere(query) ==
  SubSeq(query, IndexOf(ToLowerCase(query), kwWhere) + Len(kwWhere), Len(query))

\* C13: on the heuristic path the index suggestions are, in order, one
\* CREATE INDEX idx_<column> ON <table> (<column>); per word followed by a
\* comparison operator in the text between WHERE and the first ORDER BY, GROUP
\* BY, LIMIT or the end, <column> being the word as written in the query and
\* <table> the first identifier after FROM, table_name without FROM.
C13_IndexPerColumnAsWritten ==
  (output # <<>> /\ ~output[1].response.threw
     /\ Includes(ToLowerCase(input1), kwWhere)) =>
    output[1].response.indexSuggestions =
      IndexSuggestions(MatchColumns(Trim(BeforeKeyword(AfterFirstWhere(input1)))),
                       getTableName(input1))

\* C14: calculateSimilarity gives the same score for (a, b) and for (b, a).
C14_SimilaritySymmetric ==
  output # <<>> =>
    output[1].score.num * output[1].reverse.den
      = output[1].reverse.num * output[1].score.den

\* C14 witness: the scores of two strings of which the second contains the
\* first without being equal to it.
C14_OneContainsOther ==
  /\ output # <<>>
  /\ Clean(input1) # Clean(input2)
  /\ Clean(input1) # <<>>
  /\ Includes(Clean(input2), Clean(input1))
  /\ output[1].reverse = [num |-> 4, den |-> 5]

(***************************************************************************)
(* The reference similarity: the words of a string are its maximal runs of *)
(* characters other than whitespace, in small letters; the normalized      *)
(* string is the words joined by single spaces.                            *)
(***************************************************************************)
RECURSIVE RefWordLen(_, _)
RefWordLen(s, i) ==
  IF i <= Len(s) /\ ~IsSpace(s[i]) THEN 1 + RefWordLen(s, i + 1) ELSE 0

RECURSIVE RefWords(_, _)
RefWords(s, i) ==
  IF i > Len(s) THEN <<>>
  ELSE IF IsSpace(s[i]) THEN RefWords(s, i + 1)
  ELSE << [k \in 1..RefWordLen(s, i) |-> ToLowerChar(s[i + k - 1])] >>
         \o RefWords(s, i + RefWordLen(s, i))

RECURSIVE RefJoin(_)
RefJoin(words) ==
  IF words = <<>> THEN <<>>
  ELSE IF Len(words) = 1 THEN words[1]
  ELSE words[1] \o <<" ">> \o RefJoin(Tail(words))

RefNormalize(s) == RefJoin(RefWords(s, 1))

RefContains(a, b) ==
  \E i \in 1..(Len(a) + 1) :
    /\ i + Len(b) - 1 <= Len(a)
    /\ \A k \in 1..Len(b) : a[i + k - 1] = b[k]

RefWordSet(s) == {RefWords(s, 1)[i] : i \in 1..Len(RefWords(s, 1))}

\* The reference score of two strings, as the pair <<numerator, denominator>>.
RefSimilarity(a, b) ==
  IF RefNormalize(a) = RefNormalize(b) THEN <<1, 1>>
  ELSE IF RefContains(RefNormalize(a), RefNormalize(b))
          \/ RefContains(RefNormalize(b), RefNormalize(a))
       THEN <<4, 5>>
       ELSE << Cardinality(RefWordSet(a) \cap RefWordSet(b)),
               Cardinality(RefWordSet(a)) + Cardinality(RefWordSet(b))
                 - Cardinality(RefWordSet(a) \cap RefWordSet(b)) >>

\* C19: calculateSimilarity equals the reference on every pair of strings: 1
\* for equal normalized strings, 0.8 when one normalized string contains the
\* other, the Jaccard index of the word sets otherwise; two strings that differ
\* in letter case and in runs of whitespace only score 1.
C19_SimilarityIsReference ==
  output # <<>> =>
    /\ output[1].score.den > 0
    /\ output[1].score.num * RefSimilarity(input1, input2)[2]
         = RefSimilarity(input1, input2)[1] * output[1].score.den
    /\ RefWords(input1, 1) = RefWords(input2, 1) => output[1].score = [num |-> 1, den |-> 1]

\* C19 witness: two different strings with the same words, of which one has a
\* run of two spaces between words and a letter in another case, scored 1.
C19_CaseAndSpacesOnly ==
  /\ output # <<>>
  /\ input1 # input2
  /\ Len(RefWords(input1, 1)) >= 2
  /\ ToLowerCase(input1) # ToLowerCase(input2)
  /\ input1 # ToLowerCase(input1)
  /\ \E i \in 1..(Len(input2) - 2) :
       ~IsSpace(input2[i]) /\ IsSpace(input2[i + 1]) /\ IsSpace(input2[i + 2])
  /\ RefWords(input1, 1) = RefWords(input2, 1)
  /\ output[1].score = [num |-> 1, den |-> 1]

(***************************************************************************)
(* Properties of the form, of the order of the list and of the appends.    *)
(***************************************************************************)
\* C15: a submission with an empty sqlQuery is rejected by the validation of
\* the form: optimizeQuery is not called, no result is displayed and the store
\* is unchanged; so no call, no result and no record ever holds the empty query.
C15_EmptyRejected ==
  /\ [](/\ \A i \in 1..Len(pending) :
              pending[i].kind = "optimize" => pending[i].sqlQuery # <<>>
        /\ \A i \in 1..Len(store.items) : store.items[i].query # <<>>
        /\ result # <<>> => result[1].originalQuery # <<>>)
  /\ [][(last' # last /\ last'.op = "rejected") =>
          /\ pending' = pending
          /\ isOptimizing' = isOptimizing
          /\ result' = result
          /\ store' = store]_vars

\* C15 witness: the empty query was submitted on the fresh page and rejected.
C15_RejectedOnFreshPage ==
  /\ last.op = "rejected"
  /\ pending = <<>>
  /\ result = <<>>
  /\ store = AbsentStore
  /\ submits = 0

\* C16: the stored list is in reverse insertion order, a record appended later
\* being at a smaller index; a feedback update and a deletion of one item
\* keep the relative order of the records that remain.
C16_ReverseInsertionOrder ==
  /\ [](\A i, j \in 1..Len(store.items) :
          i < j => store.items[i].serial > store.items[j].serial)
  /\ [][(last'.op \in {"feedback", "delete"}) =>
          \A i, j \in 1..Len(store'.items) : \A a, b \in 1..Len(store.items) :
            (i < j /\ store.items[a].serial = store'.items[i].serial
                   /\ store.items[b].serial = store'.items[j].serial)
            => a < b]_vars

\* C16 witness: an item was deleted and two records remain, the newer first.
C16_TwoLeftAfterDelete ==
  /\ last.op = "delete" /\ last.toast = "Item Deleted"
  /\ Len(store.items) = 2
  /\ store.items[1].serial > store.items[2].serial

\* C17: every successful optimize, answered by the rewriter or from the
\* history, appends exactly one record: its query is the submitted query, its
\* optimized query and analysis are those of the result returned, its feedback
\* is absent.  The submission itself writes nothing to the store.
C17_OneRecordPerOptimize ==
  [][/\ (OptimizeStep /\ last'.toast = "") =>
          /\ last'.source \in {"openai", "history"}
          /\ Len(store'.items) = Len(store.items) + 1
          /\ \A i \in 1..Len(store.items) : store'.items[i + 1] = store.items[i]
          /\ store'.items[1].query = pending[1].sqlQuery
          /\ store'.items[1].feedback = "absent"
          /\ store'.items[1].optimizedQuery
               = generateMockResponse(pending[1].sqlQuery, store.items, clock).optimizedQuery
          /\ store'.items[1].analysis
               = generateMockResponse(pending[1].sqlQuery, store.items, clock).analysis
          /\ pending[1].live =>
               /\ result' # <<>>
               /\ result'[1].source = last'.source
               /\ result'[1].optimizedQuery = store'.items[1].optimizedQuery
               /\ result'[1].analysis = store'.items[1].analysis
     /\ (Len(pending') = Len(pending) + 1
           /\ pending'[Len(pending')].kind = "optimize") => store' = store]_vars

\* C17 witness: an optimize answered from the history has appended its record
\* to a store of two and displays the result.
C17_AppendedFromHistory ==
  /\ last.op = "optimize" /\ last.toast = "" /\ last.source = "history"
  /\ Len(store.items) = 3
  /\ store.items[1].feedback = "absent"
  /\ result # <<>>
  /\ result[1].source = "history"
  /\ result[1].optimizedQuery = store.items[1].optimizedQuery

\* C18: deleteHistoryItem(id) leaves the store as it was just before the call
\* without the records of that id, records appended and feedback recorded
\* after the history view was mounted included; clearHistory leaves the store
\* without records.
C18_DeleteRemovesOnlyThatId ==
  [][/\ (activeTab = "history" /\ last'.op = "delete" /\ Len(history') < Len(history)) =>
          \E i \in 1..Len(history) :
            /\ history' = FilterOut(history, history[i].id)
            /\ store'.items = FilterOut(store.items, history[i].id)
     /\ (last' # last /\ last'.op = "clear") => store'.items = <<>>]_vars

\* C20: when a feedback call and an optimize call are in flight together,
\* whichever completes works on the store as it is then: the feedback call
\* keeps every record and changes the feedback of the records of its id only,
\* the optimize call keeps every record with its feedback and puts its own
\* record in front.
C20_NoLostUpdate ==
  [][/\ (FeedbackDone /\ \E k \in 1..Len(pending) : pending[k].kind = "optimize") =>
          /\ Len(store'.items) = Len(store.items)
          /\ \A i \in 1..Len(store.items) :
               store'.items[i] =
                 IF store.items[i].id = FeedbackCall.id
                 THEN [store.items[i] EXCEPT !.feedback = FeedbackCall.value]
                 ELSE store.items[i]
     /\ (OptimizeStep /\ last'.toast = ""
           /\ \E k \in 1..Len(pending) : pending[k].kind = "feedback") =>
          /\ Len(store'.items) = Len(store.items) + 1
          /\ store'.items[1].serial = pending[1].serial
          /\ \A i \in 1..Len(store.items) : store'.items[i + 1] = store.items[i]]_vars

\* C20 witness: an optimize call has completed and replaced the displayed
\* result while the feedback call made on the earlier result is still in
\* flight.
C20_OptimizeDuringFeedback ==
  /\ Len(pending) = 1
  /\ pending[1].kind = "feedback" /\ pending[1].live
  /\ last.op = "optimize" /\ last.toast = ""
  /\ shown > pending[1].serial
  /\ Len(store.items) >= 2
  /\ store.items[1].serial = shown

(***************************************************************************)
(* Properties of the flags and of the views.                               *)
(***************************************************************************)
\* C21: every optimize submission brings isOptimizing back to false and every
\* feedback submission brings isSubmitting back to false, whether the call
\* succeeds or fails; while isSubmitting is true a click on a feedback button
\* starts no second submission.
C21_FlagsReturnToFalse ==
  /\ isOptimizing ~> ~isOptimizing
  /\ isSubmitting ~> ~isSubmitting
  /\ [][(Len(pending') = Len(pending) + 1
           /\ pending'[Len(pending')].kind = "feedback") => ~isSubmitting]_vars
  /\ [][(OptimizeStep /\ pending[1].live) => ~isOptimizing']_vars
  /\ [][(FeedbackStep /\ FeedbackCall.live) => ~isSubmitting']_vars

\* C21 witness: a feedback submission on a displayed result has failed and
\* isSubmitting is false again.
C21_FailedFeedbackReleased ==
  /\ last.op = "feedback" /\ last.toast = "Feedback submission failed"
  /\ activeTab = "optimizer"
  /\ result # <<>>
  /\ ~isSubmitting
  /\ pending = <<>>

\* C22: the feedback that FeedbackButtons highlights belongs to the displayed
\* result: when a new result replaces the displayed one no button is
\* highlighted, and the feedback that a returning call highlights was given
\* on the result displayed then.
C22_HighlightBelongsToResult ==
  [][/\ (shown' # shown /\ shown' # 0) => feedback' = "absent"
     /\ (FeedbackDone /\ FeedbackCall.live) => FeedbackCall.serial = shown']_vars

\* C23: in the history view, an item whose details are shown (selectedItem is
\* set and the list is not empty) is an item of the displayed list; after
\* deleteHistoryItem has removed the selected item its details are not shown.
C23_SelectedIsListed ==
  (activeTab = "history" /\ ~crashed /\ selectedItem # <<>> /\ history # <<>>) =>
    \E i \in 1..Len(history) : history[i] = selectedItem[1]

\* C24: a submitted query of whitespace only (it passes the validation of
\* the form) is not answered from the history: the source is "history" only
\* when the normalized submitted query is not empty.  The history is one
\* helpful record of a query that passed the validation itself.
C24_BlankNeverFromHistory ==
  (output # <<>> /\ Valid(input1) /\ Valid(input2) /\ output[1].answer = "history") =>
    Clean(input1) # <<>>

====
